---- MODULE Spec2Model ----
(***************************************************************************)
(* Query fan-out simulator: the fan-out request/response protocol of the   *)
(* two Streamlit applications                                              *)
(*   src/streamlit/howden-query-fan-out.py         (batch variant)         *)
(*   src/streamlit/howden-query-fan-out-single.py  (single-query variant)  *)
(*                                                                         *)
(* A response text is a sequence of lexical units: single characters       *)
(* [ch |-> c], JSON string literals [str |-> s], integer literals          *)
(* [num |-> n] and the literal null [lit |-> "null"].  The code slices     *)
(* text only where it has just matched the fence markers, whose characters *)
(* are all single-character units, so slicing never cuts a literal.        *)
(***************************************************************************)
EXTENDS Integers, Sequences, FiniteSets, TLC

\* ------------------------------------------------------------------ bounds

\* Longest list of lookup queries submitted in one run.
MaxLookups == 2

\* ------------------------------------------------------------ text (str)

Ch(c) == [ch |-> c]
StrTok(s) == [str |-> s]
NumTok(n) == [num |-> n]
NullTok == [lit |-> "null"]
\* The grave accent character (a TLA+ string cannot hold it).
Backtick == Ch("backtick")

\* What str.strip() removes at both ends.
IsSpace(u) == u \in {Ch(" "), Ch("\n")}

RECURSIVE LStrip(_)
LStrip(t) ==
    IF t # << >> /\ IsSpace(Head(t)) THEN LStrip(Tail(t)) ELSE t

RECURSIVE RStrip(_)
RStrip(t) ==
    IF t # << >> /\ IsSpace(t[Len(t)]) THEN RStrip(SubSeq(t, 1, Len(t) - 1)) ELSE t

\* str.strip()
Strip(t) == RStrip(LStrip(t))

\* str.startswith / str.endswith
StartsWith(t, p) == Len(t) >= Len(p) /\ SubSeq(t, 1, Len(p)) = p
EndsWith(t, p) == Len(t) >= Len(p) /\ SubSeq(t, Len(t) - Len(p) + 1, Len(t)) = p

\* The opening JSON fence marker (three backticks, then json) and the closing one.
JsonFence == <<Backtick, Backtick, Backtick, Ch("j"), Ch("s"), Ch("o"), Ch("n")>>
CloseFence == <<Backtick, Backtick, Backtick>>

\* A slice that drops the backticks of the opening fence but not its "json".
DropFirst3(t) == SubSeq(t, 4, Len(t))

\* json_text[7:] and json_text[:-3]
DropFirst7(t) == SubSeq(t, 8, Len(t))
DropLast3(t) == SubSeq(t, 1, Len(t) - 3)

\* ------------------------------------------------------------ JSON values

JNull == [t |-> "null"]
JInt(n) == [t |-> "int", n |-> n]
JStr(s) == [t |-> "str", s |-> s]
JList(xs) == [t |-> "list", xs |-> xs]
\* A dict is the sequence of its <<key, value>> pairs in document order.
JDict(kv) == [t |-> "dict", kv |-> kv]

IsDict(v) == v.t = "dict"
IsList(v) == v.t = "list"
IsInt(v) == v.t = "int"

\* dict.get(key, default): the last pair with this key wins, as in json.loads.
RECURSIVE GetKv(_, _, _)
GetKv(kv, key, default) ==
    IF kv = << >> THEN default
    ELSE IF kv[Len(kv)][1] = key THEN kv[Len(kv)][2]
    ELSE GetKv(SubSeq(kv, 1, Len(kv) - 1), key, default)

Get(d, key, default) == GetKv(d.kv, key, default)

HasKey(d, key) == \E k \in 1..Len(d.kv) : d.kv[k][1] = key

\* ------------------------------------------------------------- json.loads

\* The whitespace json.loads skips between tokens.
IsJsonWs(u) == u \in {Ch(" "), Ch("\n")}

RECURSIVE SkipWs(_, _)
SkipWs(t, i) ==
    IF i <= Len(t) /\ IsJsonWs(t[i]) THEN SkipWs(t, i + 1) ELSE i

ParseFail == [ok |-> FALSE, val |-> JNull, next |-> 0]
ParseOk(v, n) == [ok |-> TRUE, val |-> v, next |-> n]

RECURSIVE ParseValue(_, _)
RECURSIVE ParseMembers(_, _, _)
RECURSIVE ParseElems(_, _, _)

\* After a member's value v and the whitespace behind it: a comma and the
\* next member, or the closing brace.
ParseMemberSep(t, k, acc) ==
    IF k > Len(t) THEN ParseFail
    ELSE IF t[k] = Ch("}") THEN ParseOk(JDict(acc), k + 1)
    ELSE IF t[k] = Ch(",") THEN ParseMembers(t, SkipWs(t, k + 1), acc)
    ELSE ParseFail

ParseMemberValue(t, key, v, acc) ==
    IF ~v.ok THEN ParseFail
    ELSE ParseMemberSep(t, SkipWs(t, v.next), Append(acc, <<key, v.val>>))

ParseColon(t, key, j, acc) ==
    IF j > Len(t) \/ t[j] # Ch(":") THEN ParseFail
    ELSE ParseMemberValue(t, key, ParseValue(t, SkipWs(t, j + 1)), acc)

\* key : value pairs up to the closing brace; a key is expected at i.
ParseMembers(t, i, acc) ==
    IF i > Len(t) \/ ~("str" \in DOMAIN t[i]) THEN ParseFail
    ELSE ParseColon(t, t[i].str, SkipWs(t, i + 1), acc)

\* After an element and the whitespace behind it: a comma and the next
\* element, or the closing bracket.
ParseElemSep(t, k, acc) ==
    IF k > Len(t) THEN ParseFail
    ELSE IF t[k] = Ch("]") THEN ParseOk(JList(acc), k + 1)
    ELSE IF t[k] = Ch(",") THEN ParseElems(t, SkipWs(t, k + 1), acc)
    ELSE ParseFail

ParseElemValue(t, v, acc) ==
    IF ~v.ok THEN ParseFail
    ELSE ParseElemSep(t, SkipWs(t, v.next), Append(acc, v.val))

\* array elements up to the closing bracket; a value is expected at i.
ParseElems(t, i, acc) == ParseElemValue(t, ParseValue(t, i), acc)

\* After an opening brace and whitespace: an empty object, or members.
ParseObject(t, j) ==
    IF j <= Len(t) /\ t[j] = Ch("}") THEN ParseOk(JDict(<< >>), j + 1)
    ELSE ParseMembers(t, j, << >>)

\* After an opening bracket and whitespace: an empty array, or elements.
ParseArray(t, j) ==
    IF j <= Len(t) /\ t[j] = Ch("]") THEN ParseOk(JList(<< >>), j + 1)
    ELSE ParseElems(t, j, << >>)

\* The JSON value that starts with unit u at position i.
ParseUnit(t, i, u) ==
    IF "str" \in DOMAIN u THEN ParseOk(JStr(u.str), i + 1)
    ELSE IF "num" \in DOMAIN u THEN ParseOk(JInt(u.num), i + 1)
    ELSE IF "lit" \in DOMAIN u THEN ParseOk(JNull, i + 1)
    ELSE IF u = Ch("{") THEN ParseObject(t, SkipWs(t, i + 1))
    ELSE IF u = Ch("[") THEN ParseArray(t, SkipWs(t, i + 1))
    ELSE ParseFail

\* One JSON value starting at position i.
ParseValue(t, i) ==
    IF i > Len(t) THEN ParseFail ELSE ParseUnit(t, i, t[i])

\* The document is the value v if only whitespace follows it.
WholeText(t, v) ==
    IF v.ok /\ SkipWs(t, v.next) = Len(t) + 1 THEN [ok |-> TRUE, val |-> v.val]
    ELSE [ok |-> FALSE, val |-> JNull]

\* json.loads(text): ok = FALSE stands for json.JSONDecodeError.
JsonLoads(t) == WholeText(t, ParseValue(t, SkipWs(t, 1)))

\* ---------------------------------------------------------- prompt builder

SimpleMode == "AI Overview (simple)"
ComplexMode == "AI Mode (complex)"
Modes == {SimpleMode, ComplexMode}

\* QUERY_FANOUT_PROMPT(q, mode): what the prompt text depends on, the query,
\* the mode name and the mode's minimum count.
QUERY_FANOUT_PROMPT(q, mode) ==
    [query |-> q, mode |-> mode,
     min_queries |-> IF mode = SimpleMode THEN 10 ELSE 20]

NoPrompt == [query |-> "", mode |-> "", min_queries |-> 0]

\* ------------------------------------------------- the model's responses

\* json.dumps with compact separators: the text of a JSON value.
RECURSIVE Dumps(_)
RECURSIVE DumpsPairs(_)
RECURSIVE DumpsElems(_)
Dumps(v) ==
    IF v.t = "null" THEN <<NullTok>>
    ELSE IF v.t = "int" THEN <<NumTok(v.n)>>
    ELSE IF v.t = "str" THEN <<StrTok(v.s)>>
    ELSE IF v.t = "list" THEN <<Ch("[")>> \o DumpsElems(v.xs) \o <<Ch("]")>>
    ELSE <<Ch("{")>> \o DumpsPairs(v.kv) \o <<Ch("}")>>
DumpsPairs(kv) ==
    IF kv = << >> THEN << >>
    ELSE <<StrTok(kv[1][1]), Ch(":")>> \o Dumps(kv[1][2])
         \o (IF Len(kv) > 1 THEN <<Ch(","), Ch(" ")>> ELSE << >>)
         \o DumpsPairs(Tail(kv))
DumpsElems(xs) ==
    IF xs = << >> THEN << >>
    ELSE Dumps(xs[1])
         \o (IF Len(xs) > 1 THEN <<Ch(","), Ch("\n")>> ELSE << >>)
         \o DumpsElems(Tail(xs))

\* Expanded-query items the model may return.
ItemFull ==
    JDict(<< <<"query", JStr("q1")>>, <<"type", JStr("related")>>,
             <<"user_intent", JStr("u1")>>, <<"reasoning", JStr("r1")>>,
             <<"routing_format", JStr("faq_page")>>,
             <<"format_reason", JStr("f1")>> >>)
\* No routing_format, no format_reason, no user_intent; a type outside the list.
ItemSparse ==
    JDict(<< <<"query", JStr("q2")>>, <<"type", JStr("bogus_type")>>,
             <<"reasoning", JNull>> >>)
\* A routing_format outside ALLOWED_FORMATS.
ItemOddRoute ==
    JDict(<< <<"query", JStr("q3")>>, <<"routing_format", JStr("hologram")>> >>)

Plan(target) ==
    JDict(<< <<"target_query_count", target>>, <<"reasoning_for_count", JStr("why")>> >>)
Doc(details, expanded) ==
    JDict(<< <<"generation_details", details>>, <<"expanded_queries", expanded>> >>)

\* The JSON documents the model may return.
DocMatch == Doc(Plan(JInt(2)), JList(<<ItemFull, ItemSparse>>))
DocShort == Doc(Plan(JInt(3)), JList(<<ItemOddRoute>>))
DocEmpty == Doc(Plan(JInt(2)), JList(<< >>))
DocBare == JDict(<< >>)
DocTextTarget == Doc(Plan(JStr("twelve")), JList(<<ItemSparse, ItemFull>>))
DocNoTarget == Doc(JDict(<< >>), JList(<<ItemFull>>))
DocBadItem == Doc(Plan(JInt(2)), JList(<<ItemFull, JStr("oops")>>))
DocBadPlan == Doc(JList(<<JInt(1)>>), JList(<<ItemFull>>))
DocBadList == Doc(Plan(JInt(1)), JInt(5))
DocArray == JList(<<ItemFull>>)

Docs ==
    {DocMatch, DocShort, DocEmpty, DocBare, DocTextTarget, DocNoTarget,
     DocBadItem, DocBadPlan, DocBadList, DocArray}

\* The text wrapped in a markdown JSON fence, as models often answer.
Fenced(t) == JsonFence \o <<Ch("\n")>> \o t \o <<Ch("\n")>> \o CloseFence
\* The same with whitespace around the fence.
FencedPadded(t) == <<Ch(" "), Ch("\n")>> \o Fenced(t) \o <<Ch("\n"), Ch(" ")>>

\* response.text of the generation call: clean JSON, fenced JSON, and texts
\* that are not what the prompt asked for.
ResponseTexts ==
    {Dumps(d) : d \in Docs}
    \cup {Fenced(Dumps(d)) : d \in {DocMatch, DocEmpty, DocBadItem}}
    \cup {FencedPadded(Dumps(DocShort)),
          <<Ch(" ")>> \o Dumps(DocShort) \o <<Ch("\n")>>,
          \* a closing fence with no opening one
          Dumps(DocMatch) \o <<Ch("\n")>> \o CloseFence,
          \* an opening fence with no closing one
          JsonFence \o <<Ch("\n")>> \o Dumps(DocEmpty),
          \* a fence that does not name json
          CloseFence \o <<Ch("\n")>> \o Dumps(DocMatch) \o <<Ch("\n")>> \o CloseFence,
          \* a truncated document, prose, an empty answer
          <<Ch("{"), StrTok("generation_details"), Ch(":")>>,
          <<Ch("j"), Ch("s"), Ch("o"), Ch("n")>>,
          Dumps(DocEmpty) \o <<Ch(" "), Ch("o"), Ch("n")>>,
          << >>}

\* What the generation call does: it returns a text, or it raises (transport,
\* authentication or quota failure, or a response with no text).
Outcomes ==
    {[kind |-> "text", text |-> t] : t \in ResponseTexts}
    \cup {[kind |-> "raise", text |-> << >>]}

\* No generation call has been made in this script run.
NoResponse == [kind |-> "none", text |-> << >>]

\* ------------------------------------------------------- response parser

\* if json_text.startswith(<opening JSON fence>): json_text = json_text[7:]
DropOpenFence(t) == IF StartsWith(t, JsonFence) THEN DropFirst7(t) ELSE t

\* if json_text.endswith(<closing fence>): json_text = json_text[:-3]
DropCloseFence(t) == IF EndsWith(t, CloseFence) THEN DropLast3(t) ELSE t

\* generate_fanout, the fence cleaning: strip, drop an opening JSON fence,
\* drop a closing fence, strip again.
CleanFences(text) == Strip(DropCloseFence(DropOpenFence(Strip(text))))

\* data.get("generation_details", {}) and data.get("expanded_queries", []) of
\* the loaded document: exc names the exception raised, "none" when none is.
ExtractFields(loaded, json_text) ==
    IF ~loaded.ok THEN
        [exc |-> "JSONDecodeError", details |-> JNull, expanded |-> JNull,
         json_text |-> json_text]
    ELSE IF ~IsDict(loaded.val) THEN
        [exc |-> "AttributeError", details |-> JNull, expanded |-> JNull,
         json_text |-> json_text]
    ELSE
        [exc |-> "none",
         details |-> Get(loaded.val, "generation_details", JDict(<< >>)),
         expanded |-> Get(loaded.val, "expanded_queries", JList(<< >>)),
         json_text |-> json_text]

\* The parser on a response text: clean the fences, load, extract.
LoadAndExtract(json_text) == ExtractFields(JsonLoads(json_text), json_text)
ParseResponse(text) == LoadAndExtract(CleanFences(text))

\* generate_fanout(query, mode) of the batch variant, given what the
\* generation call did.
generate_fanout(outcome) ==
    IF outcome.kind = "raise" THEN
        [exc |-> "GenerationError", details |-> JNull, expanded |-> JNull,
         json_text |-> << >>]
    ELSE ParseResponse(outcome.text)

\* ---------------------------------------------------------- batch runner

\* obj.get(field): a missing field yields None.
FieldOfNoDefault(obj, field) == Get(obj, field, JNull)

\* obj.get(field, "")
FieldOf(obj, field) == Get(obj, field, JStr(""))

\* One output row of the batch variant.
RowOf(q, obj) ==
    [lookup_query |-> q,
     query |-> FieldOf(obj, "query"),
     type |-> FieldOf(obj, "type"),
     user_intent |-> FieldOf(obj, "user_intent"),
     reasoning |-> FieldOf(obj, "reasoning"),
     routing_format |-> FieldOf(obj, "routing_format"),
     format_reason |-> FieldOf(obj, "format_reason")]

\* for obj in expanded: all_rows.append({...}) over a list: the rows appended
\* before the first item that has no .get, and whether there was such an item.
RECURSIVE FlattenList(_, _, _)
FlattenList(q, xs, acc) ==
    IF xs = << >> THEN [rows |-> acc, exc |-> "none"]
    ELSE IF ~IsDict(Head(xs)) THEN [rows |-> acc, exc |-> "AttributeError"]
    ELSE FlattenList(q, Tail(xs), Append(acc, RowOf(q, Head(xs))))

\* The flatten loop over whatever expanded_queries holds: a list is iterated;
\* a dict is iterated over its keys and a string over its characters, none of
\* which has .get; a number or null cannot be iterated.
FlattenRows(q, expanded) ==
    IF IsList(expanded) THEN FlattenList(q, expanded.xs, << >>)
    ELSE IF IsDict(expanded) THEN
        [rows |-> << >>, exc |-> IF expanded.kv = << >> THEN "none" ELSE "AttributeError"]
    ELSE IF expanded.t = "str" THEN
        [rows |-> << >>, exc |-> IF expanded.s = "" THEN "none" ELSE "AttributeError"]
    ELSE [rows |-> << >>, exc |-> "TypeError"]

\* len(expanded) where the loop ended without an exception.
LenOf(expanded) ==
    IF IsList(expanded) THEN Len(expanded.xs) ELSE 0

\* The plan-summary row of one lookup.
SummaryOf(q, details) ==
    [lookup_query |-> q,
     target_query_count |-> Get(details, "target_query_count", JNull),
     reasoning_for_count |-> Get(details, "reasoning_for_count", JStr(""))]

\* str(e) of the caught exception.
ErrorText(exc) ==
    IF exc = "JSONDecodeError" THEN "Expecting value: line 1 column 1 (char 0)"
    ELSE IF exc = "AttributeError" THEN "object has no attribute 'get'"
    ELSE IF exc = "TypeError" THEN "object is not iterable"
    ELSE "generation call failed"

\* The error record both except handlers append.
ErrorRecord(q, exc) == [lookup_query |-> q, error |-> ErrorText(exc)]

\* The try block after the summary row is appended: the flatten loop f.
AfterSummary(q, g, f) ==
    [summaries |-> <<SummaryOf(q, g.details)>>, rows |-> f.rows, exc |-> f.exc,
     n |-> IF f.exc = "none" THEN LenOf(g.expanded) ELSE 0]

\* The try block after generate_fanout returned or raised g.
AfterGenerate(q, g) ==
    IF g.exc # "none" THEN
        [summaries |-> << >>, rows |-> << >>, exc |-> g.exc, n |-> 0]
    ELSE IF ~IsDict(g.details) THEN
        [summaries |-> << >>, rows |-> << >>, exc |-> "AttributeError", n |-> 0]
    ELSE AfterSummary(q, g, FlattenRows(q, g.expanded))

\* The body of the try block for lookup q: what it appends to run_summaries
\* and to all_rows before it ends or raises, and the exception it raises.
TryBody(q, outcome) == AfterGenerate(q, generate_fanout(outcome))

\* The sidebar inputs a user may give.
Keys == {"", "key"}
LookupTexts == {"a", "b"}

\* TryBody over every lookup text and every outcome of the call.
TryResults == [q \in LookupTexts, outcome \in Outcomes |-> TryBody(q, outcome)]


\* ------------------------------------------------------------------ state

VARIABLES
    app,                \* which of the two applications runs: "batch" or "single"
    state,              \* batch status: "Idle", "Running" or "Complete"
    gemini_key,         \* the sidebar's API key of the current script run
    lookups,            \* the lookup queries of the current run
    mode,               \* the search mode of the current run
    items,              \* per lookup: "Pending", "Running", "Succeeded", "Failed"
    calls,              \* per lookup: generation calls made for it in this run
    finished,           \* per finished lookup: what its try block did (see Record)
    response,           \* what the last generation call did (text or raise)
    prompt,             \* the prompt last built in this run
    all_rows,           \* the flattened output rows
    run_summaries,      \* the plan-summary rows
    errors,             \* the error records
    progress,           \* the progress bar: completed and total
    page,               \* the elements the script run has rendered
    generation_details, \* st.session_state.generation_details (single variant)
    crashed             \* the script run ended in an uncaught exception

vars ==
    <<app, state, gemini_key, lookups, mode, items, calls, finished, response, prompt,
      all_rows, run_summaries, errors, progress, page, generation_details, crashed>>

RECURSIVE SeqsUpTo(_, _)
SeqsUpTo(S, n) ==
    IF n = 0 THEN {<< >>}
    ELSE LET shorter == SeqsUpTo(S, n - 1)
         IN shorter \cup {Append(q, x) : q \in shorter, x \in S}
\* The lines of the bulk text area; "" is a blank line.
BulkTexts == SeqsUpTo(LookupTexts \cup {""}, MaxLookups)

\* A key check that lets every key through.
KeyNotChecked(key) == TRUE

\* if gemini_key:
KeyConfigured(key) == key # ""

\* [q.strip() for q in bulk_text.splitlines() if q.strip()]
NonBlank(l) == l # ""
LookupsOf(lines) == SelectSeq(lines, NonBlank)

\* Progress that counts the lookups before the one just finished.
ProgressBefore(i, total) == [done |-> i - 1, total |-> total]

\* progress.progress(i / total)
ProgressOf(i, total) == [done |-> i, total |-> total]

\* Page elements.
ApiKeyError == [el |-> "error", msg |-> "Please enter your Gemini API Key to proceed."]
ConfigureError == [el |-> "error", msg |-> "Failed to configure Gemini"]
NoLookupsWarning == [el |-> "warning", msg |-> "Please provide at least one query."]
NoRowsWarning == [el |-> "warning", msg |-> "No synthetic queries were generated."]
Table(name) == [el |-> "dataframe", data |-> name]
DownloadButton == [el |-> "download_button", msg |-> "Download CSV"]
Traceback == [el |-> "exception", msg |-> "uncaught exception"]

\* An output section whose errors table is shown only beside the rows table.
RenderErrorsUnderRows(rows, summaries, errs) ==
    (IF rows # << >>
     THEN <<Table("all_rows"), DownloadButton>>
          \o (IF errs # << >> THEN <<Table("errors")>> ELSE << >>)
     ELSE <<NoRowsWarning>>)
    \o (IF summaries # << >> THEN <<Table("run_summaries")>> ELSE << >>)

\* The output section after the loop: the rows table and the CSV download, or
\* the warning; then the plans table and the errors table, each if non-empty.
RenderBatch(rows, summaries, errs) ==
    (IF rows # << >> THEN <<Table("all_rows"), DownloadButton>> ELSE <<NoRowsWarning>>)
    \o (IF summaries # << >> THEN <<Table("run_summaries")>> ELSE << >>)
    \o (IF errs # << >> THEN <<Table("errors")>> ELSE << >>)

Init ==
    /\ app \in {"batch", "single"}
    /\ state = "Idle"
    /\ gemini_key = ""
    /\ lookups = << >>
    /\ mode = SimpleMode
    /\ items = << >>
    /\ calls = << >>
    /\ finished = << >>
    /\ response = NoResponse
    /\ prompt = NoPrompt
    /\ all_rows = << >>
    /\ run_summaries = << >>
    /\ errors = << >>
    /\ progress = ProgressOf(0, 0)
    /\ page = << >>
    /\ generation_details = JNull
    /\ crashed = FALSE

\* A script run that stops before any batch work, showing shown.
StopWith(key, shown, crash) ==
    /\ state' = "Idle"
    /\ gemini_key' = key
    /\ mode' = SimpleMode
    /\ lookups' = << >>
    /\ items' = << >>
    /\ calls' = << >>
    /\ finished' = << >>
    /\ response' = NoResponse
    /\ prompt' = NoPrompt
    /\ all_rows' = << >>
    /\ run_summaries' = << >>
    /\ errors' = << >>
    /\ progress' = ProgressOf(0, 0)
    /\ page' = shown
    /\ crashed' = crash

\* Batch variant: the user presses Run Fan-Out with this key, these lines and
\* this mode; configured tells whether genai.configure and GenerativeModel
\* return (they are not wrapped in a try here).
Submit(key, configured, lines, m) ==
    /\ app = "batch"
    /\ state = "Idle"
    /\ UNCHANGED <<app, generation_details>>
    /\ IF ~KeyConfigured(key) THEN StopWith(key, <<ApiKeyError>>, FALSE)
       ELSE IF ~configured THEN StopWith(key, <<Traceback>>, TRUE)
       ELSE IF LookupsOf(lines) = << >> THEN StopWith(key, <<NoLookupsWarning>>, FALSE)
       ELSE /\ state' = "Running"
            /\ gemini_key' = key
            /\ mode' = m
            /\ lookups' = LookupsOf(lines)
            /\ items' = [k \in 1..Len(LookupsOf(lines)) |-> "Pending"]
            /\ calls' = [k \in 1..Len(LookupsOf(lines)) |-> 0]
            /\ finished' = << >>
            /\ response' = NoResponse
            /\ prompt' = NoPrompt
            /\ all_rows' = << >>
            /\ run_summaries' = << >>
            /\ errors' = << >>
            /\ progress' = ProgressOf(0, Len(LookupsOf(lines)))
            /\ page' = << >>
            /\ crashed' = FALSE

\* The lookup the loop is at: the first one not yet finished.
Current ==
    IF \E k \in 1..Len(items) : items[k] \in {"Pending", "Running"}
    THEN CHOOSE k \in 1..Len(items) :
            /\ items[k] \in {"Pending", "Running"}
            /\ \A j \in 1..(k - 1) : items[j] \notin {"Pending", "Running"}
    ELSE 0

\* A failed lookup is put back to be tried again.
TerminalRetry(exc) == IF exc = "none" THEN "Succeeded" ELSE "Pending"

\* The item state a lookup ends in.
Terminal(exc) == IF exc = "none" THEN "Succeeded" ELSE "Failed"

\* Iteration i of the loop starts: generate_fanout builds the prompt and
\* starts the generation call.
BeginItem(i) ==
    /\ items[i] = "Pending"
    /\ items' = [items EXCEPT ![i] = "Running"]
    /\ calls' = [calls EXCEPT ![i] = @ + 1]
    /\ prompt' = QUERY_FANOUT_PROMPT(lookups[i], mode)

\* The loop enters its next iteration.
BeginCall ==
    /\ app = "batch"
    /\ state = "Running"
    /\ Current # 0
    /\ BeginItem(Current)
    /\ UNCHANGED <<app, state, gemini_key, lookups, mode, finished, response, all_rows,
                   run_summaries, errors, progress, page, generation_details, crashed>>

\* The record of a finished lookup: the exception its try block raised
\* ("none" when none), the len(expanded) it reported, and how many summary
\* rows and output rows it appended.
Record(r) ==
    [exc |-> r.exc, n |-> r.n, nsum |-> Len(r.summaries), nrows |-> Len(r.rows)]

\* The error list after the try block of lookup q ended with exc.
ErrorsAfter(errs, q, exc) ==
    IF exc = "none" THEN errs ELSE Append(errs, ErrorRecord(q, exc))

\* The code after the loop: the status turns Complete and the output section
\* is rendered.
AfterLoop(rows, summaries, errs) ==
    /\ state' = "Complete"
    /\ page' = RenderBatch(rows, summaries, errs)

\* The rest of iteration i once its try block did r: the appends, the except
\* handler, the progress update; after the last lookup, the code after the loop.
EndItem(i, r) ==
    /\ items[i] = "Running"
    /\ all_rows' = all_rows \o r.rows
    /\ run_summaries' = run_summaries \o r.summaries
    /\ errors' = ErrorsAfter(errors, lookups[i], r.exc)
    /\ items' = [items EXCEPT ![i] = Terminal(r.exc)]
    /\ finished' = Append(finished, Record(r))
    /\ progress' = ProgressOf(i, Len(lookups))
    /\ IF i = Len(lookups)
       THEN AfterLoop(all_rows', run_summaries', errors')
       ELSE UNCHANGED <<state, page>>

\* The generation call ends (returns a text or raises) and the rest of the
\* iteration runs.
EndCall(outcome) ==
    /\ app = "batch"
    /\ state = "Running"
    /\ Current # 0
    /\ response' = outcome
    /\ EndItem(Current, TryResults[lookups[Current], outcome])
    /\ UNCHANGED <<app, gemini_key, lookups, mode, calls, prompt, generation_details,
                   crashed>>

\* A finished batch stays on the page until the next interaction; the script
\* then runs again from its first line, with every list of the last run gone.
Rerun ==
    /\ app = "batch"
    /\ state = "Complete"
    /\ StopWith(gemini_key, << >>, FALSE)
    /\ UNCHANGED <<app, generation_details>>

\* ------------------------------------------------- single-query variant

\* Python truthiness of a loaded value (None and JSON null are both JNull).
Truthy(v) ==
    IF v.t = "null" THEN FALSE
    ELSE IF v.t = "int" THEN v.n # 0
    ELSE IF v.t = "str" THEN v.s # ""
    ELSE IF v.t = "list" THEN v.xs # << >>
    ELSE v.kv # << >>

UnexpectedError == [el |-> "error", msg |-> "Unexpected error during generation"]
ParseFailedError == [el |-> "error", msg |-> "Failed to parse Gemini response as JSON."]
RawLabel == [el |-> "text", msg |-> "Raw response:"]
RawText(json_text) == [el |-> "text", raw |-> json_text]
Success == [el |-> "success", msg |-> "Query fan-out complete!"]
PlanMarkdown(target, reasoning, generated) ==
    [el |-> "markdown", target |-> target, reasoning |-> reasoning,
     generated |-> generated]
MismatchWarning(target, generated) ==
    [el |-> "warning", msg |-> "Model aimed for target queries but generated fewer or more.",
     aimed |-> target, actual |-> generated]
EnterQueryWarning == [el |-> "warning", msg |-> "Please enter a query."]
NoQueriesWarning == [el |-> "warning", msg |-> "No queries generated or an error occurred."]

\* generate_fanout of the single variant from json.loads on: a text that does
\* not load is shown raw; a document that is no dict has no .get, which the
\* outer except reports.
LoadedSingle(loaded, json_text) ==
    IF ~loaded.ok THEN
        [results |-> JNull, details |-> JNull,
         shown |-> <<ParseFailedError, RawLabel, RawText(json_text)>>]
    ELSE IF ~IsDict(loaded.val) THEN
        [results |-> JNull, details |-> JNull, shown |-> <<UnexpectedError>>]
    ELSE
        [results |-> Get(loaded.val, "expanded_queries", JList(<< >>)),
         details |-> Get(loaded.val, "generation_details", JDict(<< >>)),
         shown |-> << >>]

\* generate_fanout(query, mode) of the single variant: what it returns (JNull
\* for None), what it stores in the session state, and what it shows.
generate_fanout_single(outcome) ==
    IF outcome.kind = "raise" THEN
        [results |-> JNull, details |-> JNull, shown |-> <<UnexpectedError>>]
    ELSE LoadedSingle(JsonLoads(CleanFences(outcome.text)), CleanFences(outcome.text))

\* The plan, the mismatch warning, the table and the download button.
PlanAndTable(target_count, reasoning, generated_count) ==
    <<Success, PlanMarkdown(target_count, reasoning, generated_count)>>
    \o (IF IsInt(target_count) /\ target_count.n # generated_count
        THEN <<MismatchWarning(target_count.n, generated_count)>>
        ELSE << >>)
    \o <<Table("results"), DownloadButton>>

\* The section under "if results:" with details the plan to show.  len(results)
\* raises on a number and details.get on a plan that is no dict; neither is
\* inside a try.
ResultsSection(results, details) ==
    IF ~IsList(results) \/ ~IsDict(details) THEN
        [shown |-> <<Success, Traceback>>, crash |-> TRUE]
    ELSE [shown |-> PlanAndTable(Get(details, "target_query_count", JStr("N/A")),
                                 Get(details, "reasoning_for_count", JStr("Not provided.")),
                                 Len(results.xs)),
          crash |-> FALSE]

\* st.session_state.generation_details or {}
OrEmptyDict(stored) == IF Truthy(stored) THEN stored ELSE JDict(<< >>)

\* len(results) as the page reports it.
ShownCount(results) == IF IsList(results) THEN Len(results.xs) ELSE 0

\* What the handler shows once the results section sec is built.
WithSection(g, sec) ==
    [shown |-> g.shown \o sec.shown, crash |-> sec.crash, details |-> g.details,
     n |-> ShownCount(g.results)]

\* The button handler after generate_fanout returned g.
AfterFanout(g) ==
    IF Truthy(g.results)
    THEN WithSection(g, ResultsSection(g.results, OrEmptyDict(g.details)))
    ELSE [shown |-> g.shown \o <<NoQueriesWarning>>, crash |-> FALSE,
          details |-> g.details, n |-> 0]

\* The button handler of the single variant once the query is not blank.
RunSingle(outcome) == AfterFanout(generate_fanout_single(outcome))

\* The exception the single variant's generate_fanout caught, for the record.
SingleExc(outcome) ==
    IF outcome.kind = "raise" THEN "GenerationError"
    ELSE ParseResponse(outcome.text).exc

\* Whether pandas builds the table from p.expanded: a list of dicts.  What it
\* does with a list holding something else, or with a dict or a string in
\* place of the list, is outside this model.
RenderableParsed(p) ==
    p.exc = "none" /\ Truthy(p.expanded)
        => \/ p.expanded.t = "int"
           \/ IsList(p.expanded) /\ \A k \in 1..Len(p.expanded.xs) : IsDict(p.expanded.xs[k])

Renderable(outcome) ==
    outcome.kind = "text" => RenderableParsed(ParseResponse(outcome.text))

\* The script run of the single variant that makes the generation call and
\* shows r.
ShowSingle(key, query, m, outcome, r) ==
    /\ state' = "Idle"
    /\ gemini_key' = key
    /\ mode' = m
    /\ lookups' = <<query>>
    /\ items' = << >>
    /\ calls' = <<1>>
    /\ finished' = <<[exc |-> SingleExc(outcome), n |-> r.n, nsum |-> 0, nrows |-> 0]>>
    /\ response' = outcome
    /\ prompt' = QUERY_FANOUT_PROMPT(query, m)
    /\ all_rows' = << >>
    /\ run_summaries' = << >>
    /\ errors' = << >>
    /\ progress' = ProgressOf(0, 0)
    /\ page' = r.shown
    /\ generation_details' = r.details
    /\ crashed' = r.crash

\* Single variant: one script run with the button pressed.
SingleRun(key, configured, query, m, outcome) ==
    /\ app = "single"
    /\ Renderable(outcome)
    /\ UNCHANGED app
    /\ IF ~KeyConfigured(key) THEN
            StopWith(key, <<ApiKeyError>>, FALSE) /\ UNCHANGED generation_details
       ELSE IF ~configured THEN
            StopWith(key, <<ConfigureError>>, FALSE) /\ UNCHANGED generation_details
       ELSE IF ~NonBlank(query) THEN
            StopWith(key, <<EnterQueryWarning>>, FALSE) /\ generation_details' = JNull
       ELSE ShowSingle(key, query, m, outcome, RunSingle(outcome))

Next ==
    \/ \E key \in Keys, configured \in BOOLEAN, lines \in BulkTexts, m \in Modes :
          Submit(key, configured, lines, m)
    \/ BeginCall
    \/ \E outcome \in Outcomes : EndCall(outcome)
    \/ Rerun
    \/ \E key \in Keys, configured \in BOOLEAN, query \in {"", "a"}, m \in Modes,
          outcome \in Outcomes :
          SingleRun(key, configured, query, m, outcome)

Spec == Init /\ [][Next]_vars

\* The loop moves on to its next iteration, and every generation call ends:
\* it returns a text or raises.
FairSpec ==
    /\ Spec
    /\ WF_vars(BeginCall)
    /\ WF_vars(\E outcome \in Outcomes : EndCall(outcome))

\* ----------------------------------------------------------------- claims

\* The lookup_query tags of a list of rows, summaries or error records.
Tags(rows) == [j \in 1..Len(rows) |-> rows[j].lookup_query]

RECURSIVE Repeat(_, _)
Repeat(x, n) == IF n = 0 THEN << >> ELSE <<x>> \o Repeat(x, n - 1)

\* The lookups among the first i that succeeded, in input order.
RECURSIVE SucceededTags(_)
SucceededTags(i) ==
    IF i = 0 THEN << >>
    ELSE SucceededTags(i - 1) \o (IF items[i] = "Succeeded" THEN <<lookups[i]>> ELSE << >>)

\* The tags of the rows the first i lookups yield if only successes yield rows.
RECURSIVE SucceededRowTags(_)
SucceededRowTags(i) ==
    IF i = 0 THEN << >>
    ELSE SucceededRowTags(i - 1)
         \o (IF items[i] = "Succeeded" THEN Repeat(lookups[i], finished[i].n) ELSE << >>)

\* The lookups among the first i that failed, in input order.
RECURSIVE FailedTags(_)
FailedTags(i) ==
    IF i = 0 THEN << >>
    ELSE FailedTags(i - 1) \o (IF items[i] = "Failed" THEN <<lookups[i]>> ELSE << >>)

FailedItems == {k \in 1..Len(items) : items[k] = "Failed"}
BatchComplete == app = "batch" /\ state = "Complete"

\* C1: in a batch run in which exactly one lookup k fails, the run yields
\* successful entries (plan summaries and rows) for exactly the other lookups,
\* in input order, and exactly one error record, tagged with lookup k's text.
C1_OneFailureIsolated ==
    (BatchComplete /\ Cardinality(FailedItems) = 1) =>
        /\ Tags(run_summaries) = SucceededTags(Len(lookups))
        /\ Tags(all_rows) = SucceededRowTags(Len(lookups))
        /\ Len(errors) = 1
        /\ \A k \in FailedItems : errors[1].lookup_query = lookups[k]

\* C2: after a batch run every lookup has exactly one outcome: the successes,
\* and only they, have a plan-summary row and rows; the failures, and only
\* they, have an error record.
C2_ExactlyOneOutcome ==
    BatchComplete =>
        /\ Tags(run_summaries) = SucceededTags(Len(lookups))
        /\ Tags(all_rows) = SucceededRowTags(Len(lookups))
        /\ Tags(errors) = FailedTags(Len(lookups))

\* The elements of a page.
Elems(shown) == {shown[k] : k \in 1..Len(shown)}

\* The position in run_summaries of the summary row lookup i appended.
RECURSIVE SummaryIndex(_)
SummaryIndex(i) == IF i = 0 THEN 0 ELSE SummaryIndex(i - 1) + finished[i].nsum

\* The position in errors of the error record lookup i appended.
RECURSIVE ErrorIndex(_)
ErrorIndex(i) ==
    IF i = 0 THEN 0 ELSE ErrorIndex(i - 1) + (IF finished[i].exc = "none" THEN 0 ELSE 1)

\* A summary row that carries the mismatch: a flag, or the actual count.
SurfacedInSummary(row, n) ==
    \/ "count_mismatch" \in DOMAIN row /\ row.count_mismatch = TRUE
    \/ "generated_count" \in DOMAIN row /\ row.generated_count = n

\* The single variant made its generation call in this script run.
SingleCalled == app = "single" /\ calls = <<1>>

\* The plan the single variant's page works from.
SinglePlan == OrEmptyDict(generation_details)

\* C3: a lookup that succeeds with an integer target_query_count different
\* from the number of expanded queries returned has the mismatch flagged in
\* its summary (batch: a flag or the actual count in its summary row; single:
\* the mismatch warning), for any actual count including 0.
C3_MismatchFlagged ==
    /\ BatchComplete =>
          \A i \in 1..Len(lookups) :
             (/\ items[i] = "Succeeded"
              /\ IsInt(run_summaries[SummaryIndex(i)].target_query_count)
              /\ run_summaries[SummaryIndex(i)].target_query_count.n # finished[i].n)
             => SurfacedInSummary(run_summaries[SummaryIndex(i)], finished[i].n)
    /\ (/\ SingleCalled
        /\ finished[1].exc = "none"
        /\ ~crashed
        /\ IsDict(SinglePlan)
        /\ IsInt(Get(SinglePlan, "target_query_count", JNull))
        /\ Get(SinglePlan, "target_query_count", JNull).n # finished[1].n)
       => MismatchWarning(Get(SinglePlan, "target_query_count", JNull).n, finished[1].n)
             \in Elems(page)

\* C5: when a response is not valid JSON after fence stripping, the record
\* produced for that item keeps the raw response text beside the error
\* message: a field of the batch error record, the raw text on the single
\* variant's page.
C5_RawTextPreserved ==
    /\ (app = "batch" /\ finished # << >>
        /\ finished[Len(finished)].exc = "JSONDecodeError")
       => \E f \in DOMAIN errors[ErrorIndex(Len(finished))] \ {"lookup_query", "error"} :
             errors[ErrorIndex(Len(finished))][f]
                \in {response.text, CleanFences(response.text)}
    /\ (SingleCalled /\ finished[1].exc = "JSONDecodeError")
       => RawText(CleanFences(response.text)) \in Elems(page)

\* What a parse yields: the exception, or the two fields.
Fields(p) == [exc |-> p.exc, details |-> p.details, expanded |-> p.expanded]
\* The parser's result on a response text.
Parsed(text) == Fields(ParseResponse(text))
\* json.loads and the field extraction on a text as given.
Direct(text) == Fields(LoadAndExtract(text))

\* A text without three backticks in a row.
FenceFree(t) == \A k \in 1..(Len(t) - 2) : SubSeq(t, k, k + 2) # CloseFence

\* The text answered by the last generation call, from a finished item.
Answered == response.kind = "text" /\ finished # << >>

\* Wrapping a fence-free text in a JSON fence, with or without whitespace
\* around, and stripping fences from it, change nothing of what is parsed.
FenceTransparent(t) ==
    FenceFree(t) =>
        /\ Parsed(CleanFences(t)) = Parsed(t)
        /\ Parsed(Fenced(t)) = Parsed(t)
        /\ Parsed(FencedPadded(t)) = Parsed(t)

\* The response texts that are parsed exactly as given after trimming.
AsGivenTexts == {t \in ResponseTexts : Parsed(t) = Direct(Strip(t))}
TransparentTexts == {t \in ResponseTexts : FenceTransparent(t)}
NoOpenFenceTexts == {t \in ResponseTexts : ~StartsWith(Strip(t), JsonFence)}
NoCloseFenceTexts == {t \in ResponseTexts : ~EndsWith(Strip(t), CloseFence)}

NoWork ==
    /\ state = "Idle"
    /\ prompt = NoPrompt
    /\ calls = << >>
    /\ response = NoResponse
    /\ finished = << >>
    /\ all_rows = << >>
    /\ run_summaries = << >>
    /\ errors = << >>

\* C6: while no API key is supplied the batch never leaves Idle and no prompt
\* is built, no generation call made and no result, summary or error record
\* produced; and a submission that does not start the batch shows a
\* configuration failure (the missing key, or the configuration raising) or
\* had no lookup query at all: per-item errors never keep a batch from starting.
C6_KeyCheckedFirst ==
    /\ [](gemini_key = "" => NoWork)
    /\ [][(app = "batch" /\ state = "Idle" /\ state' = "Idle")
            => page' \in {<<ApiKeyError>>, <<Traceback>>, <<NoLookupsWarning>>}]_vars

\* A run was submitted without a key and stopped at the key check.
C6_Witness ==
    app = "batch" /\ gemini_key = "" /\ page = <<ApiKeyError>> /\ NoWork

AllItems(st) == \A k \in 1..Len(items) : items[k] = st
\* The page shows an error: the batch's error table, a single-variant st.error.
BatchErrorsShown == Table("errors") \in Elems(page)
SingleErrorShown == \E e \in Elems(page) : e.el = "error"
\* The single variant's call returned a document whose list is empty.
SingleEmptyList ==
    /\ finished[1].exc = "none"
    /\ response.kind = "text"
    /\ Parsed(response.text).expanded = JList(<< >>)

\* C7 as stated: a run that ends with zero rows shows the error list, and not
\* the notice that nothing was generated, if every item failed; it shows the
\* notice and no error if the model returned an empty list.
C7_ZeroRowsCausesDistinct ==
    /\ (BatchComplete /\ all_rows = << >>) =>
          /\ AllItems("Failed") => BatchErrorsShown /\ NoRowsWarning \notin Elems(page)
          /\ AllItems("Succeeded") => NoRowsWarning \in Elems(page) /\ ~BatchErrorsShown
    /\ (SingleCalled /\ ~crashed /\ Table("results") \notin Elems(page)) =>
          /\ finished[1].exc # "none" =>
                SingleErrorShown /\ NoQueriesWarning \notin Elems(page)
          /\ SingleEmptyList => NoQueriesWarning \in Elems(page) /\ ~SingleErrorShown

\* C7 amended: a run that ends with zero rows shows the error list if every
\* item failed (beside the same no-queries notice), and shows the notice and
\* no error if the model returned an empty list; so the two reports differ.
C7_ZeroRowsAmended ==
    /\ (BatchComplete /\ all_rows = << >>) =>
          /\ AllItems("Failed") => BatchErrorsShown
          /\ AllItems("Succeeded") => NoRowsWarning \in Elems(page) /\ ~BatchErrorsShown
    /\ (SingleCalled /\ ~crashed /\ Table("results") \notin Elems(page)) =>
          /\ finished[1].exc # "none" => SingleErrorShown
          /\ SingleEmptyList => NoQueriesWarning \in Elems(page) /\ ~SingleErrorShown

\* A batch of two lookups that both failed ended with no rows.
C7_Witness ==
    /\ BatchComplete
    /\ Len(lookups) = 2
    /\ AllItems("Failed")
    /\ all_rows = << >>
    /\ page = <<NoRowsWarning, Table("errors")>>

\* The columns of an output row besides lookup_query.
RowFields ==
    {"query", "type", "user_intent", "reasoning", "routing_format", "format_reason"}

\* The rows the last finished lookup appended.
LastRows ==
    SubSeq(all_rows, Len(all_rows) - finished[Len(finished)].nrows + 1, Len(all_rows))

\* The parser's result on every response text.
ParseResults == [t \in ResponseTexts |-> ParseResponse(t)]

\* The parse of the last answer, and the items of the list it holds.
LastParse == ParseResults[response.text]
LastItems == LastParse.expanded.xs

\* The last answer is a document with a plan and a list of objects.
LastWellFormed ==
    /\ LastParse.exc = "none"
    /\ IsDict(LastParse.details)
    /\ IsList(LastParse.expanded)
    /\ \A k \in 1..Len(LastItems) : IsDict(LastItems[k])

\* C8: a lookup whose answer is a document with a list of objects succeeds,
\* whatever fields the objects lack and whatever type or routing_format they
\* name; a successful lookup yields one row per item, in the item order, tagged
\* with the lookup query, each column the item's value when present and the
\* empty string when absent.
C8_FlattenKeepsEveryItem ==
    (app = "batch" /\ Answered) =>
        /\ LastWellFormed => items[Len(finished)] = "Succeeded"
        /\ (items[Len(finished)] = "Succeeded"
            /\ IsList(LastParse.expanded)) =>
              /\ Len(LastRows) = Len(LastItems)
              /\ \A k \in 1..Len(LastRows) :
                    /\ LastRows[k].lookup_query = lookups[Len(finished)]
                    /\ \A f \in RowFields :
                          LastRows[k][f] =
                             IF HasKey(LastItems[k], f)
                             THEN GetKv(LastItems[k].kv, f, JNull)
                             ELSE JStr("")

\* An item without routing_format and with a type outside the list became a
\* row, after the row of the item before it.
C8_Witness ==
    /\ app = "batch"
    /\ Answered
    /\ items[Len(finished)] = "Succeeded"
    /\ Len(LastRows) = 2
    /\ LastRows[1].routing_format = JStr("faq_page")
    /\ LastRows[2].routing_format = JStr("")
    /\ LastRows[2].type = JStr("bogus_type")
    /\ ~HasKey(LastItems[2], "routing_format")

TerminalStates == {"Succeeded", "Failed"}
TerminalItems == {k \in 1..Len(items) : items[k] \in TerminalStates}

\* One at a time, in input order, one call each.
SequentialNow ==
    /\ Cardinality({k \in 1..Len(items) : items[k] = "Running"}) <= 1
    /\ \A k \in 1..(Len(items) - 1) :
          items[k + 1] # "Pending" => items[k] \in TerminalStates
    /\ \A k \in 1..Len(items) : calls[k] = (IF items[k] = "Pending" THEN 0 ELSE 1)

\* While the batch runs, a terminal item keeps its state and its call count.
TerminalIsFinal ==
    state = "Running" =>
        \A k \in TerminalItems : items'[k] = items[k] /\ calls'[k] = calls[k]

\* C9: at most one lookup runs at a time; the call for item i+1 starts only
\* after item i is Succeeded or Failed; every started lookup has had exactly
\* one generation call and a pending one none; an item that is terminal is
\* never run or called again while the batch runs.
C9_SequentialNoRetry ==
    /\ [](app = "batch" => SequentialNow)
    /\ [][TerminalIsFinal]_vars

\* The second lookup is running after the first one failed, each called once.
C9_Witness ==
    /\ app = "batch"
    /\ state = "Running"
    /\ items = <<"Failed", "Running">>
    /\ calls = <<1, 1>>

\* Progress accounting of a started batch.
ProgressNow ==
    /\ Len(lookups) >= 1
    /\ progress.total = Len(lookups)
    /\ progress.done = Len(finished)
    /\ progress.done = Cardinality(TerminalItems)
    /\ state = "Complete" => TerminalItems = 1..Len(items)
    /\ (progress.done = progress.total) <=> (state = "Complete")

\* While the batch runs, the completed count never goes down.
ProgressGrows ==
    state = "Running" =>
        /\ progress'.done >= progress.done
        /\ progress'.total = progress.total

\* C10: a running batch reaches Complete, and is Complete only when all N
\* items are terminal; after the k-th item finishes, failed or not, progress is
\* k of N; it never decreases and is N of N exactly when the batch is Complete.
C10_ReachesComplete ==
    /\ (app = "batch" /\ state = "Running") ~> (state = "Complete")
    /\ []((app = "batch" /\ state # "Idle") => ProgressNow)
    /\ [][ProgressGrows]_vars

\* A batch of two lookups completed although its first lookup failed.
C10_Witness ==
    /\ app = "batch"
    /\ state = "Complete"
    /\ items = <<"Failed", "Succeeded">>
    /\ progress = [done |-> 2, total |-> 2]

====
